---------------------------- MODULE Spec2Model ----------------------------
(***************************************************************************)
(* imv: the control program of src/src/main.c (argument and stdin intake,  *)
(* the event loop, the change-drain loop, playback, texture update and     *)
(* paint) together with the Navigator, AnimatedImage and Viewport          *)
(* operations it calls.  navigator.c, image.c and viewport.c are not part  *)
(* of the sources at hand; their operations are written from the design    *)
(* document (sections 3 and 4) and are marked so in the map.               *)
(*                                                                         *)
(* Specifications:                                                         *)
(*   Spec       main from the argv loop on; FairSpec adds the fairness of  *)
(*              the drain loop                                             *)
(*   ArgSpec    main from its first line: the argc test, parse_args, Spec  *)
(*   NavSpec    the Navigator operations called in any order               *)
(*   AnimSpec   the AnimatedImage operations, with frames and durations    *)
(*   ViewSpec   the Viewport transform under the handlers of main          *)
(*   ClockSpec  the playback clock of the control loop                     *)
(***************************************************************************)
EXTENDS Integers, Sequences, FiniteSets, TLC

(***************************************************************************)
(* Bounds of the model.                                                    *)
(***************************************************************************)
MaxArgs  == 2      \* non-option command-line words handled by the argv loop
MaxLines == 2      \* lines read from stdin
MaxStart == 2      \* g_options.start_at ranges over 0..MaxStart

(***************************************************************************)
(* The file names of the model.  "D" is a directory; the others are plain  *)
(* files.  None stands for the NULL returned by get_current_path.          *)
(***************************************************************************)
PathNames == {"A", "B", "C"}
DirNames  == {"D"}
None      == "none"
NoPath    == -1    \* the cursor's "no current path" value

\* list_entries of the filesystem collaborator: order as the OS hands it out
DirEntries(d) == IF d = "D" THEN <<"B", "A">> ELSE <<>>

VARIABLES
  pc,        \* position of main: "main" "parse" "args" "stdin" "check" "poll"
             \* "drain" "play" "tex" "paint" | "exit0" "exit1" (exit(0),
             \* exit(1)) "done" (return 0) "crashed";
             \* "api", "anim", "view", "clock" where the navigator, the
             \* image, the viewport or the clock is followed on its own
  opts,      \* g_options, the part the control loop reads: actual
  intake,    \* what only the intake (main.c 141-215) reads: g_options.stdin,
             \* .recursive and .start_at, and how many argv words and stdin
             \* lines it has consumed; nothing reads it past line 215
  bad,       \* the files the decoder collaborator fails on
  nav,       \* struct imv_navigator: paths, cur_path, changed
  img,       \* struct imv_image: path (source decoded), changed; in
             \* AnimSpec and ClockSpec frames, frame_index, frame_time_accum,
             \* changed; in ViewSpec path, changed, dims
  view,      \* struct imv_viewport: redraw, playing; in ViewSpec also scale,
             \* x, y, fullscreen, window, window_size
  tex,       \* the image the texture was last set from
  quit,      \* main's quit flag
  clock,     \* now: SDL_GetTicks; last_time: main's local of that name
  hist       \* observation record for the properties (no effect on control)

vars == <<pc, opts, intake, bad, nav, img, view, tex, quit, clock, hist>>

---------------------------------------------------------------------------
(***************************************************************************)
(* Navigator (design document 4.1).                                        *)
(***************************************************************************)
NumPaths(n) == Len(n.paths)

HasPath(n, p) == \E i \in 1..Len(n.paths) : n.paths[i] = p

\* imv_init_navigator
InitNavigator == [paths |-> <<>>, cur_path |-> NoPath, changed |-> FALSE]

\* add_path(p): append unless present; the first path sets the cursor and changed
AddPath(n, p) ==
  IF HasPath(n, p) THEN n
  ELSE IF NumPaths(n) = 0
       THEN [paths |-> <<p>>, cur_path |-> 0, changed |-> TRUE]
       ELSE [n EXCEPT !.paths = Append(@, p)]

RECURSIVE AddAll(_, _)
AddAll(n, s) == IF s = <<>> THEN n ELSE AddAll(AddPath(n, Head(s)), Tail(s))

\* add_path_recursive(p): a plain file as add_path, a directory entry by entry
AddPathRecursive(n, p) ==
  IF p \in DirNames THEN AddAll(n, DirEntries(p)) ELSE AddPath(n, p)

\* next_path: advance, wrapping to 0 past the end; no-op on an empty list
NextPath(n) ==
  IF NumPaths(n) = 0 THEN n
  ELSE [n EXCEPT !.cur_path = IF @ + 1 >= NumPaths(n) THEN 0 ELSE @ + 1,
                 !.changed = TRUE]

\* prev_path: symmetric, wrapping to the last index
PrevPath(n) ==
  IF NumPaths(n) = 0 THEN n
  ELSE [n EXCEPT !.cur_path = IF @ - 1 < 0 THEN NumPaths(n) - 1 ELSE @ - 1,
                 !.changed = TRUE]

\* set_path(k): the cursor becomes k clamped into [0, len); marks changed
\* (variant without the clamp)
SetPathUnclamped(n, k) == [n EXCEPT !.cur_path = k, !.changed = TRUE]
SetPath(n, k) ==
  IF NumPaths(n) = 0 THEN [n EXCEPT !.changed = TRUE]
  ELSE [n EXCEPT !.cur_path = IF k < 0 THEN 0
                              ELSE IF k >= NumPaths(n) THEN NumPaths(n) - 1
                              ELSE k,
                 !.changed = TRUE]

\* the sequence s without its element at 0-based index i
RemoveAt(s, i) == [j \in 1..(Len(s) - 1) |-> IF j <= i THEN s[j] ELSE s[j + 1]]

\* remove_current_path: delete the entry under the cursor; the cursor keeps
\* its index, wraps to 0 when that index fell off the end, and becomes the
\* sentinel when the list is empty; marks changed
RemoveCurrentPath(n) ==
  IF NumPaths(n) = 0 THEN n
  ELSE LET rest == RemoveAt(n.paths, n.cur_path)
       IN [paths    |-> rest,
           cur_path |-> IF Len(rest) = 0 THEN NoPath
                        ELSE IF n.cur_path >= Len(rest) THEN 0
                        ELSE n.cur_path,
           changed  |-> TRUE]

\* get_current_path: the path under the cursor, or none
GetCurrentPath(n) ==
  IF NumPaths(n) = 0 THEN None ELSE n.paths[n.cur_path + 1]

\* has_changed: the value returned; ConsumeChanged is the navigator left behind
HasChanged(n) == n.changed
\* (variant that reads the flag without clearing it)
ConsumeChangedKept(n) == n
ConsumeChanged(n) == [n EXCEPT !.changed = FALSE]


---------------------------------------------------------------------------
(***************************************************************************)
(* AnimatedImage and Viewport, as far as main's control flow reads them    *)
(* (design document 4.2, 4.3).                                             *)
(***************************************************************************)
\* imv_init_image: nothing decoded yet
InitImage == [path |-> None, changed |-> FALSE]

\* main.c 213: last_time is set from the clock before the loop.  Spec does
\* not follow the time; ClockSpec does
InitClock == [now |-> 0, last_time |-> 0]

\* imv_init_viewport
InitViewport == [redraw |-> FALSE, playing |-> TRUE]

\* the decoder collaborator: 0 on success, 1 on a decode failure
DecodeResult(p) == IF p \in bad THEN 1 ELSE 0

\* load(path) on success: the new source replaces the old one, changed is set
ImageLoaded(p) == [path |-> p, changed |-> TRUE]

\* frames of a decoded file: "C" is an animation, the others are still images
NumFrames(p) == IF p = "C" THEN 2 ELSE 1

SetRedraw(v)     == [v EXCEPT !.redraw = TRUE]
ScaleToWindow(v) == [v EXCEPT !.redraw = TRUE]
ScaleToActual(v) == [v EXCEPT !.redraw = TRUE]
TogglePlaying(v) == [v EXCEPT !.playing = ~@]

---------------------------------------------------------------------------
(***************************************************************************)
(* Observation record.  It has no effect on control.                       *)
(*   added   the arguments of the add_path calls of the intake             *)
(*   start   <<the path list, start_at>> at the entry of the control loop, *)
(*           kept until the first event is handled                         *)
(*   input   an event has been handled                                     *)
(*   last    the step main took last: the navigator operation it called    *)
(*           ("add" "set" "prev" "next" "close" "drop"), "load" for a      *)
(*           successful load, "drain" for another turn of the drain loop,  *)
(*           "print" for the 'p' handler, "getopt" for a turn of the       *)
(*           option loop, "none" otherwise; in the specifications of one   *)
(*           component the operation called                                *)
(*   pre     the navigator that operation was called on                    *)
(*   arg     the argument of set_path in that step, if it called it        *)
(*   tried   the argument of imv_image_load in that step, if it loaded     *)
(*   dirty   a navigator operation took effect since the last has_changed  *)
(*   hc      has_changed was called in that step: <<result, dirty then,    *)
(*           the result of the has_changed call of the step before, or     *)
(*           "first" when the step before called none>>                    *)
(*   cli     what parse_args wrote to stderr: "" nothing, "warned" the     *)
(*           warning of -n, "unknown" the message of an unknown argument;  *)
(*           kept until the first event is handled                         *)
(*   opt     the option getopt returned in that step, with its optarg      *)
(*   was     <<the image or viewport the operation of that step was called *)
(*           on>>, when the step is one of the image or viewport harness;  *)
(*           <<the viewport before>> when the step is that of line 308 or  *)
(*           a turn of the drain loop whose load failed                    *)
(*   newimg  the test of line 303 found the image changed, in that step or *)
(*           in the step before the one of line 308                        *)
(*   paint   the step was that of line 308: "yes" it painted, "no" it did  *)
(*           not; "" any other step                                        *)
(*   drained this run of the drain loop so far: "" no turn found a change, *)
(*           "pending" one did and no load has succeeded, "one" one load   *)
(*           has succeeded, "many" more than one; kept for the step that   *)
(*           leaves the loop                                               *)
(*   tries   the paths handed to imv_image_load in this run of the loop    *)
(*   again   one of them was handed over a second time                     *)
(*   mark    where the time is followed: the time of the last play step    *)
(*           taken with playback on, or the time playback was switched on  *)
(*           if that was later                                             *)
(*   played  the time that has passed with playback on since that step     *)
(*   steps   how many handlers the viewport has been taken through, where  *)
(*           the model follows it on its own (it bounds the model only)    *)
(***************************************************************************)
\* no option: what opt holds in a step that is not one of getopt
NoOpt == [c |-> "", optarg |-> ""]

InitHist ==
  [added |-> <<>>, start |-> <<>>, input |-> FALSE,
   last |-> "none", pre |-> InitNavigator, arg |-> 0, tried |-> "",
   dirty |-> FALSE, hc |-> <<>>, cli |-> "", opt |-> NoOpt, was |-> <<>>,
   newimg |-> FALSE, paint |-> "", steps |-> 0,
   drained |-> "", tries |-> {}, again |-> FALSE, mark |-> 0,
   played |-> 0]

\* the has_changed call of the step just taken, for the call that follows it
PrevCall(h) ==
  IF h.hc = <<>> THEN "first" ELSE IF h.hc[1] THEN "true" ELSE "false"

\* a step that calls nothing of the navigator
Quiet(h) ==
  [h EXCEPT !.last = "none", !.pre = InitNavigator, !.arg = 0, !.tried = "",
            !.hc = <<>>, !.opt = NoOpt, !.was = <<>>, !.newimg = FALSE,
            !.paint = "", !.drained = "", !.tries = {}, !.again = FALSE]

\* an event has been handled
Seen(h) == [Quiet(h) EXCEPT !.input = TRUE, !.start = <<>>, !.cli = ""]

\* the navigator operation op took the navigator from n to m
NavOp(h, op, n, m) ==
  [h EXCEPT !.last = op, !.pre = n,
            !.dirty = @ \/ m.paths # n.paths \/ m.cur_path # n.cur_path
                        \/ op = "set"
                        \/ (op \in {"next", "prev", "close", "drop"}
                            /\ NumPaths(n) > 0)]

---------------------------------------------------------------------------
(***************************************************************************)
(* Start of main: after parse_args, before the argv loop (main.c 129-139). *)
(***************************************************************************)
\* the intake record once the intake is over
IntakeDone ==
  [stdin |-> FALSE, recursive |-> FALSE, start_at |-> 0, nargs |-> 0,
   nlines |-> 0]

Init ==
  /\ pc = "args"
  /\ opts \in [actual : BOOLEAN]
  /\ intake \in [stdin : BOOLEAN, recursive : BOOLEAN, start_at : 0..MaxStart,
                 nargs : {0}, nlines : {0}]
  /\ bad \in SUBSET PathNames
  /\ nav = InitNavigator
  /\ img = InitImage
  /\ view = InitViewport
  /\ tex = None
  /\ quit = FALSE
  /\ clock = InitClock
  /\ hist = InitHist

\* the words a user hands over: files, "-", and directories under -r (without
\* -r a directory is one more path the decoder fails on, which bad covers)
ArgWords  == PathNames \cup {"-"} \cup (IF intake.recursive THEN DirNames ELSE {})
LineWords == PathNames \cup {""} \cup (IF intake.recursive THEN DirNames ELSE {})

\* the add_path calls add_path_recursive(p) makes
AddCalls(p) == IF intake.recursive /\ p \in DirNames THEN DirEntries(p) ELSE <<p>>

\* main.c 146-150 and 161-165: one path handed to the navigator
\* (variant that ignores g_options.recursive)
AddInputFlat(n, p) == AddPath(n, p)
AddInput(n, p) ==
  IF intake.recursive THEN AddPathRecursive(n, p) ELSE AddPath(n, p)

\* main.c 141-151: one turn of the argv loop
AddArg ==
  /\ pc = "args"
  /\ intake.nargs < MaxArgs
  /\ \E a \in ArgWords :
       IF a = "-"
       THEN /\ intake' = [intake EXCEPT !.stdin = TRUE, !.nargs = @ + 1]
            /\ hist' = Quiet(hist)
            /\ UNCHANGED nav
       ELSE /\ intake' = [intake EXCEPT !.nargs = @ + 1]
            /\ nav' = AddInput(nav, a)
            /\ hist' = [NavOp(hist, "add", nav, AddInput(nav, a))
                          EXCEPT !.added = @ \o AddCalls(a)]
  /\ UNCHANGED <<pc, opts, bad, img, view, tex, quit, clock>>

\* main.c 141, 153: argv is used up
EndArgs ==
  /\ pc = "args"
  /\ pc' = IF intake.stdin THEN "stdin" ELSE "check"
  /\ hist' = Quiet(hist)
  /\ UNCHANGED <<opts, intake, bad, nav, img, view, tex, quit, clock>>

\* main.c 155-167: one line of stdin, its newline stripped; empty lines skipped
ReadLine ==
  /\ pc = "stdin"
  /\ intake.nlines < MaxLines
  /\ \E l \in LineWords :
       IF l = ""
       THEN /\ hist' = Quiet(hist)
            /\ UNCHANGED nav
       ELSE /\ nav' = AddInput(nav, l)
            /\ hist' = [NavOp(hist, "add", nav, AddInput(nav, l))
                          EXCEPT !.added = @ \o AddCalls(l)]
  /\ intake' = [intake EXCEPT !.nlines = @ + 1]
  /\ UNCHANGED <<pc, opts, bad, img, view, tex, quit, clock>>

\* main.c 155: fgets returns NULL
EndStdin ==
  /\ pc = "stdin"
  /\ pc' = "check"
  /\ hist' = Quiet(hist)
  /\ UNCHANGED <<opts, intake, bad, nav, img, view, tex, quit, clock>>

\* main.c 170-217: no path at all is fatal; otherwise the window, image,
\* texture and viewport are set up and the cursor is put on start_at
\* main.c 170: no path was handed in (variant: the test left out)
NoInputCheckMissing(n) == FALSE
NoInput(n) == GetCurrentPath(n) = None

CheckInput ==
  /\ pc = "check"
  /\ IF NoInput(nav)
     THEN /\ pc' = "exit1"
          /\ hist' = Quiet(hist)
          /\ UNCHANGED <<nav, intake>>
     ELSE /\ pc' = "poll"
          /\ nav' = SetPath(nav, intake.start_at)
          /\ hist' = [NavOp(hist, "set", nav, SetPath(nav, intake.start_at))
                        EXCEPT !.added = <<>>,
                               !.start = <<nav.paths, intake.start_at>>,
                               !.arg = intake.start_at]
          /\ intake' = IntakeDone
  /\ UNCHANGED <<opts, bad, img, view, tex, quit, clock>>


---------------------------------------------------------------------------
(***************************************************************************)
(* The event loop (main.c 218-264): one action per event handled.          *)
(***************************************************************************)
\* main.c 220: events are read while quit is not set
\* (variant: the test of quit left out)
PollingDespiteQuit == pc = "poll"
Polling == pc = "poll" /\ ~quit

\* main.c 222-224 (SDL_QUIT) and 227 ('q')
EvQuit ==
  /\ Polling
  /\ quit' = TRUE
  /\ hist' = Seen(hist)
  /\ UNCHANGED <<pc, opts, intake, bad, nav, img, view, tex, clock>>

\* main.c 228-229: '[' or Left
OnKeyLeft(n) == PrevPath(n)

KeyPrev ==
  /\ Polling
  /\ nav' = OnKeyLeft(nav)
  /\ hist' = NavOp(Seen(hist), "prev", nav, OnKeyLeft(nav))
  /\ UNCHANGED <<pc, opts, intake, bad, img, view, tex, quit, clock>>

\* main.c 230-231: ']' or Right
\* (variant bound to the other direction)
OnKeyRightSwapped(n) == PrevPath(n)
OnKeyRight(n) == NextPath(n)

KeyNext ==
  /\ Polling
  /\ nav' = OnKeyRight(nav)
  /\ hist' = NavOp(Seen(hist), "next", nav, OnKeyRight(nav))
  /\ UNCHANGED <<pc, opts, intake, bad, img, view, tex, quit, clock>>

\* main.c 245: 'x'
\* (variant that also steps on)
OnKeyXThenNext(n) == NextPath(RemoveCurrentPath(n))
OnKeyX(n) == RemoveCurrentPath(n)

KeyClose ==
  /\ Polling
  /\ nav' = OnKeyX(nav)
  /\ hist' = NavOp(Seen(hist), "close", nav, OnKeyX(nav))
  /\ UNCHANGED <<pc, opts, intake, bad, img, view, tex, quit, clock>>

\* main.c 249: 'p' hands get_current_path's result to puts unchecked.  With
\* NULL that is undefined: the C library either faults or prints a
\* placeholder and returns.
KeyPrint ==
  /\ Polling
  /\ hist' = [Seen(hist) EXCEPT !.last = "print", !.pre = nav]
  /\ IF GetCurrentPath(nav) = None
     THEN pc' \in {"crashed", "poll"}
     ELSE pc' = pc
  /\ UNCHANGED <<opts, intake, bad, nav, img, view, tex, quit, clock>>

\* main.c 247: '.'
KeyStep ==
  /\ Polling
  /\ img' = [img EXCEPT !.changed = TRUE]
  /\ hist' = Seen(hist)
  /\ UNCHANGED <<pc, opts, intake, bad, nav, view, tex, quit, clock>>

\* main.c 248: ' '
KeyPlay ==
  /\ Polling
  /\ view' = TogglePlaying(view)
  /\ hist' = Seen(hist)
  /\ UNCHANGED <<pc, opts, intake, bad, nav, img, tex, quit, clock>>

\* main.c 232-244, 246, 252-262: zoom, scale, center, pan, fullscreen, wheel,
\* drag and window events; of their effect only the redraw request is kept
EvView ==
  /\ Polling
  /\ view' = SetRedraw(view)
  /\ hist' = Seen(hist)
  /\ UNCHANGED <<pc, opts, intake, bad, nav, img, tex, quit, clock>>

\* main.c 220, 266-268, 333-343: quit ends the batch and the loop; teardown
LeaveOnQuit ==
  /\ pc = "poll"
  /\ quit
  /\ pc' = "done"
  /\ hist' = Quiet(hist)
  /\ UNCHANGED <<opts, intake, bad, nav, img, view, tex, quit, clock>>

\* main.c 220, 266: SDL_PollEvent has nothing more
PollEmpty ==
  /\ Polling
  /\ pc' = "drain"
  /\ hist' = Quiet(hist)
  /\ UNCHANGED <<opts, intake, bad, nav, img, view, tex, quit, clock>>

---------------------------------------------------------------------------
(***************************************************************************)
(* The change-drain loop (main.c 270-294): one action per turn, the test   *)
(* of the while included.                                                  *)
(***************************************************************************)
\* main.c 291-293
ApplyActual(v) == IF opts.actual THEN ScaleToActual(v) ELSE v

\* main.c 277: no current path (variant: the test left out)
CurrentMissingUnchecked(cp) == FALSE
CurrentMissing(cp) == cp = None

\* main.c 282-283: what a failed load does to the navigator (variants: step
\* past the path and keep it; keep it and ask for another turn)
OnLoadFailureSkip(n)  == NextPath(n)
OnLoadFailureRetry(n) == [n EXCEPT !.changed = TRUE]
OnLoadFailure(n) == RemoveCurrentPath(n)

\* (the title of line 273 is formatted before the test of line 277, from a
\* NULL path when there is none; the C library prints a placeholder for it)
DrainStep ==
  /\ pc = "drain"
  /\ LET ret  == HasChanged(nav)
         n1   == ConsumeChanged(nav)
         cp   == GetCurrentPath(n1)
         h0   == [Quiet(hist) EXCEPT !.last = "drain",
                                     !.hc = <<ret, hist.dirty, PrevCall(hist)>>,
                                     !.dirty = FALSE,
                                     !.tries = hist.tries,
                                     !.again = hist.again]
         h1   == [h0 EXCEPT !.drained = IF ret /\ hist.drained = ""
                                        THEN "pending" ELSE hist.drained]
         h2   == [h1 EXCEPT !.tries = @ \cup {cp},
                            !.again = @ \/ cp \in hist.tries]
     IN IF ~ret
        THEN /\ pc' = "play"
             /\ nav' = n1
             /\ hist' = h1
             /\ UNCHANGED <<img, view>>
        ELSE IF CurrentMissing(cp)
        THEN /\ pc' = "exit1"
             /\ nav' = n1
             /\ hist' = h1
             /\ UNCHANGED <<img, view>>
        ELSE IF DecodeResult(cp) # 0
        THEN /\ pc' = "drain"
             /\ nav' = OnLoadFailure(n1)
             /\ hist' = [NavOp(h2, "drop", n1, OnLoadFailure(n1))
                           EXCEPT !.tried = cp, !.was = <<view>>]
             /\ view' = ApplyActual(view)
             /\ UNCHANGED img
        ELSE /\ pc' = "drain"
             /\ nav' = n1
             /\ hist' = [h2 EXCEPT !.last = "load", !.pre = n1, !.tried = cp,
                                   !.drained = IF hist.drained = "one"
                                                  \/ hist.drained = "many"
                                               THEN "many" ELSE "one"]
             /\ img' = ImageLoaded(cp)
             /\ view' = ApplyActual(ScaleToWindow(view))
  /\ UNCHANGED <<opts, intake, bad, tex, quit, clock>>

---------------------------------------------------------------------------
(***************************************************************************)
(* Playback, texture update and paint (main.c 296-330).                    *)
(***************************************************************************)
\* main.c 296-301: play(dt) may move an animation on to another frame
PlayStep ==
  /\ pc = "play"
  /\ pc' = "tex"
  /\ IF view.playing /\ NumFrames(img.path) > 1
     THEN \E adv \in BOOLEAN : img' = [img EXCEPT !.changed = @ \/ adv]
     ELSE UNCHANGED img
  /\ hist' = Quiet(hist)
  /\ UNCHANGED <<opts, intake, bad, nav, view, tex, quit, clock>>

\* main.c 304: the texture takes the bitmap of the image
\* (variant: the texture keeps what it had)
SetImageKept(t, im) == t
SetImage(t, im) == im.path

\* main.c 305: the viewport once the texture has the new bitmap
\* (variant: the repaint is not asked for)
OnImageChangedQuiet(v) == v
OnImageChanged(v) == SetRedraw(v)

\* main.c 303-306
TexStep ==
  /\ pc = "tex"
  /\ pc' = "paint"
  /\ IF img.changed
     THEN /\ img' = [img EXCEPT !.changed = FALSE]
          /\ tex' = SetImage(tex, img)
          /\ view' = OnImageChanged(view)
     ELSE UNCHANGED <<img, tex, view>>
  /\ hist' = [Quiet(hist) EXCEPT !.newimg = img.changed]
  /\ UNCHANGED <<opts, intake, bad, nav, quit, clock>>

\* main.c 308-330: paint and present if the viewport asks for it, then the
\* delay of line 330
PaintStep ==
  /\ pc = "paint"
  /\ pc' = "poll"
  /\ IF view.redraw
     THEN /\ view' = [view EXCEPT !.redraw = FALSE]
          /\ hist' = [Quiet(hist) EXCEPT !.paint = "yes", !.was = <<view>>,
                                         !.newimg = hist.newimg]
     ELSE /\ view' = view
          /\ hist' = [Quiet(hist) EXCEPT !.paint = "no", !.was = <<view>>,
                                         !.newimg = hist.newimg]
  /\ UNCHANGED <<opts, intake, bad, nav, img, tex, quit, clock>>

Next ==
  \/ AddArg \/ EndArgs \/ ReadLine \/ EndStdin \/ CheckInput
  \/ EvQuit \/ KeyPrev \/ KeyNext \/ KeyClose \/ KeyPrint \/ KeyStep
  \/ KeyPlay \/ EvView \/ LeaveOnQuit \/ PollEmpty
  \/ DrainStep \/ PlayStep \/ TexStep \/ PaintStep

Spec == Init /\ [][Next]_vars

\* main is one sequential thread: a turn of the drain loop that can run, runs
FairSpec == Spec /\ WF_vars(DrainStep)


---------------------------------------------------------------------------
(***************************************************************************)
(* main from its first line: the argc test and parse_args (main.c 94-139), *)
(* then the program as above.                                              *)
(***************************************************************************)
\* decimal numerals of one digit
Numeral(k) ==
  CASE k = 0 -> "0" [] k = 1 -> "1" [] k = 2 -> "2" [] k = 3 -> "3"
    [] k = 4 -> "4" [] k = 5 -> "5" [] k = 6 -> "6" [] k = 7 -> "7"
    [] k = 8 -> "8" [] OTHER -> "9"

\* the strings handed to -n: the numerals that name a start index of the
\* model, "0", and strings that are negative, not a number, a number
\* followed by something else, or empty
OptArgs ==
  {Numeral(k) : k \in 0..(MaxStart + 1)} \cup {"-1", "x", "2x", ""}

\* strtol(optarg, &end, 0): the value read and what is left at end
Strtol(a) ==
  IF \E k \in 0..9 : a = Numeral(k)
  THEN [n |-> CHOOSE k \in 0..9 : a = Numeral(k), end |-> ""]
  ELSE CASE a = "-1" -> [n |-> 0 - 1, end |-> ""]
         [] a = "2x" -> [n |-> 2, end |-> "x"]
         [] a = "x"  -> [n |-> 0, end |-> "x"]
         [] OTHER    -> [n |-> 0, end |-> ""]

\* main.c 112: the value of -n is refused
WrongValue(a) == Strtol(a).end # "" \/ Strtol(a).n <= 0

\* what getopt(argc, argv, "firahn:") returns: an option of the string, -n
\* with its argument, or '?' for any other flag and for -n without argument
OptItems ==
  [c : {"f", "i", "r", "a", "h", "?"}, optarg : {""}]
    \cup [c : {"n"}, optarg : OptArgs]

ArgInit ==
  /\ pc = "main"
  /\ opts = [actual |-> FALSE]
  /\ intake = [stdin |-> FALSE, recursive |-> FALSE, start_at |-> 0,
               nargs |-> 0, nlines |-> 0]
  /\ bad \in SUBSET PathNames
  /\ nav = InitNavigator
  /\ img = InitImage
  /\ view = InitViewport
  /\ tex = None
  /\ quit = FALSE
  /\ clock = InitClock
  /\ hist = InitHist

\* main.c 131-134: no argument at all prints the usage and exits with 1
CheckArgc ==
  /\ pc = "main"
  /\ \E argc \in 1..2 : pc' = IF argc < 2 THEN "exit1" ELSE "parse"
  /\ hist' = Quiet(hist)
  /\ UNCHANGED <<opts, intake, bad, nav, img, view, tex, quit, clock>>

\* main.c 105-125: one turn of the option loop.  (-f sets
\* g_options.fullscreen, which only the window set-up of line 209 reads; -i
\* also prints a deprecation notice.)
GetOpt ==
  /\ pc = "parse"
  /\ \E o \in OptItems :
       /\ opts' = IF o.c = "a" THEN [opts EXCEPT !.actual = TRUE] ELSE opts
       /\ intake' =
            CASE o.c = "i" -> [intake EXCEPT !.stdin = TRUE]
              [] o.c = "r" -> [intake EXCEPT !.recursive = TRUE]
              [] o.c = "n" /\ ~WrongValue(o.optarg) ->
                   [intake EXCEPT !.start_at = Strtol(o.optarg).n - 1]
              [] OTHER -> intake
       /\ pc' = CASE o.c = "h" -> "exit0"
                  [] o.c = "?" -> "exit1"
                  [] OTHER -> "parse"
       /\ hist' = [Quiet(hist) EXCEPT
                     !.last = "getopt", !.opt = o, !.arg = intake.start_at,
                     !.cli = CASE o.c = "?" -> "unknown"
                               [] o.c = "n" /\ WrongValue(o.optarg) -> "warned"
                               [] OTHER -> @]
  /\ UNCHANGED <<bad, nav, img, view, tex, quit, clock>>

\* main.c 105, 139: getopt returns -1
EndOpts ==
  /\ pc = "parse"
  /\ pc' = "args"
  /\ hist' = Quiet(hist)
  /\ UNCHANGED <<opts, intake, bad, nav, img, view, tex, quit, clock>>

ArgNext == CheckArgc \/ GetOpt \/ EndOpts \/ Next

ArgSpec == ArgInit /\ [][ArgNext]_vars

---------------------------------------------------------------------------
(***************************************************************************)
(* The Navigator on its own: its operations called in any order, with any  *)
(* argument, on a navigator fresh from imv_init_navigator.                 *)
(***************************************************************************)
NavInit ==
  /\ pc = "api"
  /\ opts = [actual |-> FALSE]
  /\ intake = IntakeDone
  /\ bad = {}
  /\ nav = InitNavigator
  /\ img = InitImage
  /\ view = InitViewport
  /\ tex = None
  /\ quit = FALSE
  /\ clock = InitClock
  /\ hist = InitHist

NavRest == UNCHANGED <<pc, opts, intake, bad, img, view, tex, quit, clock>>

ApiAddPath ==
  /\ pc = "api"
  /\ \E p \in PathNames :
       /\ nav' = AddPath(nav, p)
       /\ hist' = NavOp(Quiet(hist), "add", nav, AddPath(nav, p))
  /\ NavRest

ApiNextPath ==
  /\ pc = "api"
  /\ nav' = NextPath(nav)
  /\ hist' = NavOp(Quiet(hist), "next", nav, NextPath(nav))
  /\ NavRest

ApiPrevPath ==
  /\ pc = "api"
  /\ nav' = PrevPath(nav)
  /\ hist' = NavOp(Quiet(hist), "prev", nav, PrevPath(nav))
  /\ NavRest

ApiSetPath ==
  /\ pc = "api"
  /\ \E k \in (0 - MaxStart - 1)..(MaxStart + 1) :
       /\ nav' = SetPath(nav, k)
       /\ hist' = [NavOp(Quiet(hist), "set", nav, SetPath(nav, k))
                     EXCEPT !.arg = k]
  /\ NavRest

ApiRemoveCurrentPath ==
  /\ pc = "api"
  /\ nav' = RemoveCurrentPath(nav)
  /\ hist' = NavOp(Quiet(hist), "close", nav, RemoveCurrentPath(nav))
  /\ NavRest

ApiHasChanged ==
  /\ pc = "api"
  /\ nav' = ConsumeChanged(nav)
  /\ hist' = [Quiet(hist) EXCEPT !.last = "drain",
                                 !.hc = <<HasChanged(nav), hist.dirty, PrevCall(hist)>>,
                                 !.dirty = FALSE]
  /\ NavRest

NavNext ==
  \/ ApiAddPath \/ ApiNextPath \/ ApiPrevPath \/ ApiSetPath
  \/ ApiRemoveCurrentPath \/ ApiHasChanged

NavSpec == NavInit /\ [][NavNext]_vars

---------------------------------------------------------------------------
(***************************************************************************)
(* The AnimatedImage on its own (design document 4.2): the frames with     *)
(* their durations, the playback position and the time spent in the        *)
(* current frame; load, load_next_frame and play called in any order.      *)
(* Durations and dt are whole units of time.                               *)
(***************************************************************************)
MaxFrames == 3     \* frames of a decoded file
MaxDur    == 2     \* a frame lasts 1..MaxDur
MaxDt     == 6     \* play is called with dt in 0..MaxDt

\* the frame durations a decoder may hand back
FrameSeqs == UNION {[1..n -> 1..MaxDur] : n \in 1..MaxFrames}

\* load(path) on success: frames replaced, position and accumulator reset
LoadFrames(fr) ==
  [frames |-> fr, frame_index |-> 0, frame_time_accum |-> 0, changed |-> TRUE]

\* load_next_frame: one frame on, wrapping; sets changed
LoadNextFrame(im) ==
  [im EXCEPT !.frame_index = (@ + 1) % Len(im.frames), !.changed = TRUE]

\* the catch-up loop of play: while the accumulator exceeds the duration of
\* the current frame, take that duration off and advance
RECURSIVE CatchUp(_)
CatchUp(im) ==
  IF im.frame_time_accum > im.frames[im.frame_index + 1]
  THEN CatchUp(LoadNextFrame(
         [im EXCEPT !.frame_time_accum = @ - im.frames[im.frame_index + 1]]))
  ELSE im

\* play(dt): nothing for a single frame; else accumulate dt and catch up
Play(im, dt) ==
  IF Len(im.frames) < 2 THEN im
  ELSE CatchUp([im EXCEPT !.frame_time_accum = @ + dt])

\* has_changed of the image: consumed by the caller
ImageConsumed(im) == [im EXCEPT !.changed = FALSE]

AnimInit ==
  /\ pc = "anim"
  /\ opts = [actual |-> FALSE]
  /\ intake = IntakeDone
  /\ bad = {}
  /\ nav = InitNavigator
  /\ img \in {LoadFrames(fr) : fr \in FrameSeqs}
  /\ view = InitViewport
  /\ tex = None
  /\ quit = FALSE
  /\ clock = InitClock
  /\ hist = InitHist

AnimRest == UNCHANGED <<pc, opts, intake, bad, nav, view, tex, quit, clock>>

ApiLoad ==
  /\ pc = "anim"
  /\ \E fr \in FrameSeqs : img' = LoadFrames(fr)
  /\ hist' = [Quiet(hist) EXCEPT !.last = "load", !.was = <<img>>]
  /\ AnimRest

\* main.c 247
ApiLoadNextFrame ==
  /\ pc = "anim"
  /\ img' = LoadNextFrame(img)
  /\ hist' = [Quiet(hist) EXCEPT !.last = "step", !.was = <<img>>]
  /\ AnimRest

\* main.c 300
ApiPlay ==
  /\ pc = "anim"
  /\ \E dt \in 0..MaxDt :
       /\ img' = Play(img, dt)
       /\ hist' = [Quiet(hist) EXCEPT !.last = "play", !.arg = dt,
                                      !.was = <<img>>]
  /\ AnimRest

\* main.c 303
ApiImageHasChanged ==
  /\ pc = "anim"
  /\ img' = ImageConsumed(img)
  /\ hist' = [Quiet(hist) EXCEPT !.last = "consume", !.was = <<img>>]
  /\ AnimRest

AnimNext == ApiLoad \/ ApiLoadNextFrame \/ ApiPlay \/ ApiImageHasChanged

AnimSpec == AnimInit /\ [][AnimNext]_vars

---------------------------------------------------------------------------
(***************************************************************************)
(* The Viewport transform (design document 4.3) under the handlers of      *)
(* main.c 232-262 that drive it.  Lengths are pixels; scale is counted in  *)
(* units of 1/ScaleOne, so that every fit of the model's windows and       *)
(* images is exact.                                                        *)
(***************************************************************************)
MaxWheel  == 2     \* e.wheel.y ranges over -MaxWheel..MaxWheel
MaxScale  == 8     \* zooming in stops at MaxScale / ScaleOne
MaxPan    == 300   \* panning stops when an offset would pass MaxPan
MaxEvents == 3     \* handlers followed in a row

ScaleOne == 4      \* the scale value that stands for 1.0
ZoomStep == 1      \* what one unit of zoom amount adds to scale
MinScale == 1      \* the positive minimum zoom clamps to
PanStep  == 50     \* the distance of h, j, k, l

WinSizes == {<<200, 200>>, <<400, 200>>}
ImgDims  == {<<100, 100>>, <<400, 200>>, <<400, 400>>}
MousePts == {<<0, 0>>, <<100, 100>>}
Drags    == {<<50, 0>>, <<0 - 50, 0 - 50>>}

Abs(i) == IF i < 0 THEN 0 - i ELSE i
Min(a, b) == IF a < b THEN a ELSE b

\* a length of the image on the display at scale sc
Scaled(len, sc) == (len * sc) \div ScaleOne

\* imv_init_viewport; window is the size the window collaborator reports,
\* window_size what the viewport last read from it
InitTransform(w) ==
  [scale |-> ScaleOne, x |-> 0, y |-> 0, redraw |-> TRUE, playing |-> TRUE,
   fullscreen |-> FALSE, window |-> w, window_size |-> w]

\* center: the scaled image in the middle of window_size, scale untouched
ViewCenter(v, d) ==
  [v EXCEPT !.x = (v.window_size[1] - Scaled(d[1], v.scale)) \div 2,
            !.y = (v.window_size[2] - Scaled(d[2], v.scale)) \div 2]

\* scale_to_window: scale = min(window_w/img_w, window_h/img_h); recenters
ViewScaleToWindow(v, d) ==
  [ViewCenter([v EXCEPT !.scale = Min((v.window_size[1] * ScaleOne) \div d[1],
                                       (v.window_size[2] * ScaleOne) \div d[2])],
              d)
     EXCEPT !.redraw = TRUE]

\* scale_to_actual: scale = 1; recenters
ViewScaleToActual(v, d) ==
  [ViewCenter([v EXCEPT !.scale = ScaleOne], d) EXCEPT !.redraw = TRUE]

\* move: pan by (dx, dy)
ViewMove(v, dx, dy) ==
  [v EXCEPT !.x = @ + dx, !.y = @ + dy, !.redraw = TRUE]

\* zoom: the clamp to the positive minimum (variant without it)
ClampScaleNone(sc) == sc
ClampScale(sc) == IF sc < MinScale THEN MinScale ELSE sc

\* zoom(source, amount): scale moves by amount steps, clamped; the offset is
\* recomputed so that the anchor (the mouse for the wheel, the middle of the
\* window for the keyboard) stays where it is
ViewZoom(v, src, amount, mouse) ==
  LET sc == ClampScale(v.scale + amount * ZoomStep)
      a  == IF src = "MOUSE" THEN mouse
            ELSE <<v.window_size[1] \div 2, v.window_size[2] \div 2>>
  IN [v EXCEPT !.scale = sc,
               !.x = a[1] - ((a[1] - v.x) * sc) \div v.scale,
               !.y = a[2] - ((a[2] - v.y) * sc) \div v.scale,
               !.redraw = TRUE]

\* updated: window_size is read again from the collaborator, then center
ViewUpdated(v, d) ==
  [ViewCenter([v EXCEPT !.window_size = v.window], d) EXCEPT !.redraw = TRUE]

\* toggle_fullscreen
ViewToggleFullscreen(v) == [v EXCEPT !.fullscreen = ~@]

\* the model keeps scale and offsets within its bounds
InRange(v) ==
  /\ v.scale <= MaxScale
  /\ Abs(v.x) <= MaxPan
  /\ Abs(v.y) <= MaxPan

\* the image the viewport is shown: its dimensions are all that matter here
ViewImage(d) == [path |-> "A", changed |-> FALSE, dims |-> d]

\* the state past the first load of the drain loop (main.c 287-293)
ViewInit ==
  /\ pc = "view"
  /\ opts \in [actual : BOOLEAN]
  /\ intake = IntakeDone
  /\ bad = {}
  /\ nav = InitNavigator
  /\ img \in {ViewImage(d) : d \in ImgDims}
  /\ \E w \in WinSizes :
       view = IF opts.actual
              THEN ViewScaleToActual(ViewScaleToWindow(InitTransform(w), img.dims),
                                     img.dims)
              ELSE ViewScaleToWindow(InitTransform(w), img.dims)
  /\ tex = None
  /\ quit = FALSE
  /\ clock = InitClock
  /\ hist = InitHist

\* main.c 260-262: which window events reach imv_viewport_updated: every one,
\* whatever e.window.event says (resized or not)
CallsUpdated(resized) == TRUE

OnWindowEvent(v, d, resized) ==
  IF CallsUpdated(resized) THEN ViewUpdated(v, d) ELSE v

\* one handler: the viewport becomes v2, if the model's bounds allow; the
\* scale and offset before are kept for the zoom and window handlers
ViewStep(op, v2, a) ==
  /\ pc = "view"
  /\ hist.steps < MaxEvents
  /\ InRange(v2)
  /\ view' = v2
  /\ hist' = [Quiet(hist) EXCEPT
                !.last = op, !.arg = a, !.steps = @ + 1,
                !.was = IF op \in {"zoom", "window"}
                        THEN <<view.scale, view.x, view.y>> ELSE <<>>,
                !.tried = IF op = "window" /\ CallsUpdated(a = 1)
                          THEN "updated" ELSE ""]
  /\ UNCHANGED <<pc, opts, intake, bad, nav, img, tex, quit, clock>>

\* main.c 232-237: '=', 'i', Up zoom in by 1; '-', 'o', Down zoom out by 1
VKeyZoom ==
  \E a \in {1, 0 - 1} :
     ViewStep("zoom", ViewZoom(view, "KBD", a, <<0, 0>>), a)

\* main.c 252-254: the wheel zooms by e.wheel.y about the mouse
VWheel ==
  \E wy \in (0 - MaxWheel)..MaxWheel, m \in MousePts :
     ViewStep("zoom", ViewZoom(view, "MOUSE", wy, m), wy)

\* main.c 238: 'a'
VKeyActual == ViewStep("actual", ViewScaleToActual(view, img.dims), 0)

\* main.c 239: 'r'
VKeyFit == ViewStep("fit", ViewScaleToWindow(view, img.dims), 0)

\* main.c 240: 'c'
VKeyCenter == ViewStep("center", ViewCenter(view, img.dims), 0)

\* main.c 241-244: 'j', 'k', 'h', 'l'
VKeyMove ==
  \E d \in {<<0, 0 - PanStep>>, <<0, PanStep>>, <<PanStep, 0>>,
             <<0 - PanStep, 0>>} :
     ViewStep("move", ViewMove(view, d[1], d[2]), 0)

\* main.c 255-259: the mouse moved; a pan only with the left button down
VDrag ==
  \E d \in Drags, lmask \in BOOLEAN :
     ViewStep("move", IF lmask THEN ViewMove(view, d[1], d[2]) ELSE view, 0)

\* main.c 246: 'f'
VKeyFullscreen == ViewStep("fullscreen", ViewToggleFullscreen(view), 0)

\* a window event: the window has a new size (resized) or the one it had
\* (shown, exposed, moved, focus ...); arg records which: 1 resized, 0 not
VWindowEvent ==
  \E w \in WinSizes :
     LET resized == w # view.window
         v1      == [view EXCEPT !.window = w]
     IN ViewStep("window", OnWindowEvent(v1, img.dims, resized),
                 IF resized THEN 1 ELSE 0)

ViewNext ==
  \/ VKeyZoom \/ VWheel \/ VKeyActual \/ VKeyFit \/ VKeyCenter \/ VKeyMove
  \/ VDrag \/ VKeyFullscreen \/ VWindowEvent

ViewSpec == ViewInit /\ [][ViewNext]_vars

---------------------------------------------------------------------------
(***************************************************************************)
(* The playback clock of the control loop (main.c 213, 248, 296-301): the  *)
(* time runs, ' ' switches playback, and each iteration takes the play     *)
(* step.  Time is counted in whole ticks; the image is an animation of the *)
(* AnimatedImage model.                                                    *)
(***************************************************************************)
MaxTime == 5       \* the time is followed up to MaxTime

ClockInit ==
  /\ pc = "clock"
  /\ opts = [actual |-> FALSE]
  /\ intake = IntakeDone
  /\ bad = {}
  /\ nav = InitNavigator
  /\ img \in {LoadFrames(fr) : fr \in FrameSeqs}
  /\ view = InitViewport
  /\ tex = None
  /\ quit = FALSE
  /\ clock = InitClock
  /\ hist = InitHist

\* the time passes: in SDL_Delay (main.c 330), in a load, anywhere
CkTick ==
  /\ pc = "clock"
  /\ clock.now < MaxTime
  /\ clock' = [clock EXCEPT !.now = @ + 1]
  /\ hist' = [Quiet(hist) EXCEPT !.played = IF view.playing THEN @ + 1 ELSE @]
  /\ UNCHANGED <<pc, opts, intake, bad, nav, img, view, tex, quit>>

\* main.c 248: ' '
CkKeyPlay ==
  /\ pc = "clock"
  /\ view' = TogglePlaying(view)
  /\ hist' = [Quiet(hist) EXCEPT !.mark = IF view.playing THEN @ ELSE clock.now]
  /\ UNCHANGED <<pc, opts, intake, bad, nav, img, tex, quit, clock>>

\* main.c 299: last_time is set anew, in the play step only
TakeTime(c) == [c EXCEPT !.last_time = c.now]

\* main.c 296-301: the play step of an iteration
CkPlayStep ==
  /\ pc = "clock"
  /\ IF view.playing
     THEN LET dt == clock.now - clock.last_time
          IN /\ clock' = TakeTime(clock)
             /\ img' = Play(img, dt)
             /\ hist' = [Quiet(hist) EXCEPT !.last = "play", !.arg = dt,
                                            !.was = <<hist.mark, hist.played>>,
                                            !.mark = clock.now, !.played = 0]
     ELSE /\ hist' = Quiet(hist)
          /\ UNCHANGED <<clock, img>>
  /\ UNCHANGED <<pc, opts, intake, bad, nav, view, tex, quit>>

ClockNext == CkTick \/ CkKeyPlay \/ CkPlayStep

ClockSpec == ClockInit /\ [][ClockNext]_vars

---------------------------------------------------------------------------
(***************************************************************************)
(* Properties.                                                             *)
(***************************************************************************)

\* where main is
InLoop == pc \in {"poll", "drain", "play", "tex", "paint"}
Ended  == pc \in {"exit1", "done", "crashed"}

\* the two ways out of the drain loop
C2_LoopLeft ==
  \/ /\ pc = "play"
     /\ NumPaths(nav) > 0
     /\ ~nav.changed
     /\ img.path = GetCurrentPath(nav)
  \/ /\ pc = "exit1"
     /\ NumPaths(nav) = 0

\* what the turn of the drain loop just taken did, if it loaded
C2_TurnEffect ==
  /\ hist.last = "drop" =>
       /\ DecodeResult(hist.tried) # 0
       /\ hist.tried = GetCurrentPath(hist.pre)
       /\ nav.paths = SelectSeq(hist.pre.paths, LAMBDA q : q # hist.tried)
       /\ NumPaths(nav) = NumPaths(hist.pre) - 1
  /\ hist.last = "load" =>
       /\ DecodeResult(hist.tried) = 0
       /\ nav.paths = hist.pre.paths
       /\ img.path = hist.tried

\* the start on [A, B], A undecodable, B decodable, no event so far, and
\* main past the drain loop
C3_Case ==
  /\ hist.start = << <<"A", "B">>, 0 >>
  /\ "A" \in bad
  /\ "B" \notin bad
  /\ pc = "play"

\* the elements of s in the order of their first occurrence
RECURSIVE FirstOccurrences(_)
FirstOccurrences(s) ==
  IF s = <<>> THEN <<>>
  ELSE LET r == FirstOccurrences(SubSeq(s, 1, Len(s) - 1))
           x == s[Len(s)]
       IN IF \E j \in 1..Len(r) : r[j] = x THEN r ELSE Append(r, x)


(* C1: whatever sequence of add_path, next_path, prev_path, set_path(n)    *)
(* (n any integer) and remove_current_path has run, the cursor is an index *)
(* of the path list when the list is non-empty, and it is the "no current  *)
(* path" value exactly when the list is empty.                             *)
C1_CursorValid ==
  /\ (NumPaths(nav) = 0) <=> (nav.cur_path = NoPath)
  /\ NumPaths(nav) > 0 => nav.cur_path \in 0..(NumPaths(nav) - 1)

\* set_path with a negative argument has moved the cursor from the end to 0
C1_Witness ==
  /\ hist.last = "set"
  /\ hist.arg < 0
  /\ NumPaths(nav) = 3
  /\ hist.pre.cur_path = 2
  /\ nav.cur_path = 0


(* C2: the decode-failure recovery terminates.  Every entry of the drain   *)
(* loop with a non-empty list ends, after finitely many loads, either      *)
(* past the loop with the current path loaded and changed clear, or in     *)
(* exit(1) with every path removed; a failed load removes exactly the path *)
(* that failed, and a load that succeeds removes nothing.                  *)
C2_RecoveryTerminates ==
  /\ [](C2_TurnEffect)
  /\ (pc = "drain" /\ NumPaths(nav) > 0) ~> C2_LoopLeft

\* the recovery has just dropped one of two paths; the one left decodes
C2_Witness ==
  /\ pc = "drain"
  /\ hist.last = "drop"
  /\ NumPaths(hist.pre) = 2
  /\ NumPaths(nav) = 1
  /\ GetCurrentPath(nav) \notin bad


(* C3: started on the list [A, B] with the default start index, A failing  *)
(* to decode and B decoding, and no event handled, main is past the drain  *)
(* loop only with B as current path, a path list of length 1 and B loaded. *)
C3_StartupRecovery ==
  C3_Case =>
    /\ GetCurrentPath(nav) = "B"
    /\ NumPaths(nav) = 1
    /\ img.path = "B"

\* the first pass of the drain loop is over in that case
C3_Witness ==
  /\ C3_Case
  /\ hist.last = "drain"
  /\ nav.paths = <<"B">>

(* C4 as stated: once the intake is over an empty path list is found only  *)
(* in the iteration that emptied it, before its drain loop has run, or in  *)
(* a process that ended with a non-zero status (exit(1), or the fault of   *)
(* puts(NULL)).                                                            *)
C4_EmptyAlwaysFatal ==
  (NumPaths(nav) = 0 /\ (InLoop \/ Ended)) =>
     pc \in {"poll", "drain", "exit1", "crashed"}

(* C4, amended: the control loop is entered only with a non-empty list; a  *)
(* list emptied during the session never gets past the drain loop of the   *)
(* same iteration: no load of a missing path, no playback, texture or      *)
(* paint step; the process ends in that iteration with a non-zero status,  *)
(* unless a quit event read later in the same batch ends it with status 0. *)
C4_EmptyFatalUnlessQuit ==
  /\ hist.last = "set" => NumPaths(hist.pre) > 0
  /\ hist.tried # None
  /\ (NumPaths(nav) = 0 /\ (InLoop \/ Ended)) =>
       /\ pc \in {"poll", "drain", "exit1", "crashed", "done"}
       /\ pc = "done" => quit
       /\ pc = "drain" => nav.changed

\* the drain loop has found the list emptied by 'x' and left through exit(1)
C4_Witness ==
  /\ pc = "exit1"
  /\ hist.last = "drain"
  /\ hist.input
  /\ NumPaths(nav) = 0
  /\ img.path # None

(* C5: the 'p' handler runs only when there is a current path: what it     *)
(* hands to puts is never the missing path.                                *)
C5_PrintHasPath ==
  hist.last = "print" => GetCurrentPath(hist.pre) # None

C7_WrapAround ==
  LET N == NumPaths(hist.pre)
      i == hist.pre.cur_path
  IN /\ hist.last \in {"next", "prev"} =>
          /\ nav.paths = hist.pre.paths
          /\ N = 0 => nav = hist.pre
     /\ (hist.last = "next" /\ N > 0) => nav.cur_path = (i + 1) % N
     /\ (hist.last = "prev" /\ N > 0) => nav.cur_path = (i + N - 1) % N

\* next_path has wrapped from the last of three to the first
C7_Witness ==
  /\ hist.last = "next"
  /\ NumPaths(nav) = 3
  /\ hist.pre.cur_path = 2
  /\ nav.cur_path = 0

(* C8: remove_current_path on a list of length N >= 2 with cursor i takes  *)
(* out the element at i and nothing else, keeps the order of the others,   *)
(* leaves the cursor at i when i < N-1 and puts it to 0 when i = N-1, and  *)
(* sets changed.                                                           *)
C8_RemoveKeepsOrder ==
  LET N == NumPaths(hist.pre)
      i == hist.pre.cur_path
  IN (hist.last \in {"close", "drop"} /\ N >= 2) =>
       /\ NumPaths(nav) = N - 1
       /\ \A j \in 1..(N - 1) :
            nav.paths[j] = IF j <= i THEN hist.pre.paths[j]
                           ELSE hist.pre.paths[j + 1]
       /\ nav.cur_path = IF i < N - 1 THEN i ELSE 0
       /\ nav.changed

\* 'x' on the last of three: the cursor is back at 0
C8_Witness ==
  /\ hist.last = "close"
  /\ NumPaths(hist.pre) = 3
  /\ hist.pre.cur_path = 2
  /\ nav.cur_path = 0
  /\ NumPaths(nav) = 2

(* C9: remove_current_path on a list of one element leaves an empty list   *)
(* and the cursor at the "no current path" value, get_current_path then    *)
(* returns none, and changed is raised and stays raised until the drain    *)
(* loop reads it, so that no iteration gets past the drain loop with an    *)
(* empty list.                                                             *)
C9_RemoveLast ==
  /\ (hist.last \in {"close", "drop"} /\ NumPaths(hist.pre) = 1) =>
       /\ nav.paths = <<>>
       /\ nav.cur_path = NoPath
       /\ GetCurrentPath(nav) = None
       /\ nav.changed
  /\ (NumPaths(nav) = 0 /\ pc \in {"poll", "drain"}) => nav.changed
  /\ pc \in {"play", "tex", "paint"} => NumPaths(nav) > 0

\* the recovery has dropped the only path there was
C9_Witness ==
  /\ hist.last = "drop"
  /\ NumPaths(hist.pre) = 1
  /\ nav.paths = <<>>
  /\ pc = "drain"

(* C10: during the intake the path list holds every string handed to       *)
(* add_path exactly once, in the order of first occurrence; from the first *)
(* add on the cursor is 0 and changed is set, and no later add moves it.   *)
C10_NoDuplicates ==
  pc \in {"args", "stdin", "check"} =>
    /\ nav.paths = FirstOccurrences(hist.added)
    /\ \A j, k \in 1..NumPaths(nav) : nav.paths[j] = nav.paths[k] => j = k
    /\ IF hist.added = <<>>
       THEN nav = InitNavigator
       ELSE nav.cur_path = 0 /\ nav.changed

\* the intake is over: a repeated path was handed in, three are listed
C10_Witness ==
  /\ pc = "check"
  /\ NumPaths(nav) = 3
  /\ Len(hist.added) > 3
  /\ nav.cur_path = 0

\* an item of the command line that is malformed: -n with a value that is
\* not a number, is followed by something else, is zero or negative; or a
\* flag that is none of f, i, r, a, h, n
Malformed(o) ==
  \/ o.c = "?"
  \/ o.c = "n" /\ o.optarg \in {"0", "-1", "x", "2x", ""}

(* C11 as stated: a malformed item of the command line never ends the      *)
(* program.  The turn of the option loop that meets one writes a warning,  *)
(* leaves the start index and every other option as they were and goes on  *)
(* parsing; a program that was handed a malformed item ends with status 1  *)
(* only when no path is left to show.                                      *)
C11_MalformedNeverAborts ==
  /\ Malformed(hist.opt) =>
       /\ pc = "parse"
       /\ hist.cli = "warned"
       /\ intake.start_at = hist.arg
  /\ (hist.cli # "" /\ pc = "exit1") => NumPaths(nav) = 0 /\ hist.last # "getopt"


\* every frame of im lasts as long as the first
EqualDurations(im) == \A j \in 1..Len(im.frames) : im.frames[j] = im.frames[1]

(* C12 as stated: on an animation of N >= 2 frames of equal duration d, at *)
(* frame f with an empty accumulator, one call play(k * d) lands on frame  *)
(* (f + k) mod N; and whatever play and load_next_frame calls were made,   *)
(* frame_index is in [0, N).                                               *)
C12_CatchUp ==
  /\ pc = "anim" => img.frame_index \in 0..(Len(img.frames) - 1)
  /\ hist.last = "play" =>
       LET im0 == hist.was[1]
           N   == Len(im0.frames)
           d   == im0.frames[1]
       IN (N >= 2 /\ EqualDurations(im0) /\ im0.frame_time_accum = 0
             /\ hist.arg % d = 0) =>
            img.frame_index = (im0.frame_index + hist.arg \div d) % N


(* C13: paint gating.  A paint happens only in the paint step of an        *)
(* iteration, once; that step paints exactly when the viewport asked for a *)
(* redraw as it was reached, and leaves the request cleared.  When the     *)
(* iteration found the image changed, the texture holds the image and the  *)
(* redraw is asked for before the paint step is reached, and that step     *)
(* paints.                                                                 *)
C13_PaintGating ==
  /\ hist.paint # "" =>
       /\ pc = "poll"
       /\ (hist.paint = "yes") <=> hist.was[1].redraw
       /\ ~view.redraw
       /\ hist.newimg => hist.paint = "yes"
  /\ (pc = "paint" /\ hist.newimg) =>
       /\ view.redraw
       /\ tex = img.path
       /\ ~img.changed

\* an iteration that found the image changed has painted it
C13_Witness ==
  /\ hist.paint = "yes"
  /\ hist.newimg
  /\ hist.input
  /\ tex = img.path
  /\ ~nav.changed


(* C14: the scale of the viewport is positive after every sequence of      *)
(* keyboard zooms, wheel zooms of any delta, scale_to_window,              *)
(* scale_to_actual, center, move and window events.                        *)
C14_ScalePositive ==
  pc = "view" => view.scale > 0

\* a wheel zoom that would have taken the scale to zero or below was clamped
C14_Witness ==
  /\ hist.last = "zoom"
  /\ hist.arg < 0 - 1
  /\ hist.was[1] + hist.arg * ZoomStep <= 0
  /\ view.scale = MinScale


(* C15 as stated: of the window events only a resize reaches               *)
(* Viewport.updated; a window event that leaves the size of the window as  *)
(* it was leaves the pan offset as it was; and no window event changes     *)
(* the scale.                                                              *)
C15_UpdatedOnResizeOnly ==
  hist.last = "window" =>
    /\ (hist.tried = "updated") <=> (hist.arg = 1)
    /\ hist.arg = 0 => (view.x = hist.was[2] /\ view.y = hist.was[3])
    /\ view.scale = hist.was[1]


\* the step just taken left the drain loop, which had found a change
C16_Drained ==
  /\ pc \in {"play", "exit1"}
  /\ hist.last = "drain"
  /\ hist.drained # ""

(* C16 as stated: the decoder is called only in a turn of the drain loop   *)
(* whose has_changed returned true, the flag having been raised since the  *)
(* call before; a run of the drain loop hands no path to the decoder       *)
(* twice; and a run that found a change ends with exactly one successful   *)
(* load, that of the current path.                                         *)
C16_ReloadExactlyOnce ==
  /\ hist.tried # "" => hist.hc # <<>> /\ hist.hc[1] /\ hist.hc[2]
  /\ ~hist.again
  /\ hist.drained # "many"
  /\ C16_Drained => hist.drained = "one" /\ img.path = GetCurrentPath(nav)

(* C16, amended: as above, but a run of the drain loop that found a change *)
(* ends with at most one successful load: exactly one, of the current      *)
(* path, when main goes on past the loop; none when the paths left all     *)
(* failed or the list had been emptied, and then main is in exit(1).       *)
C16_ReloadAtMostOnce ==
  /\ hist.tried # "" => hist.hc # <<>> /\ hist.hc[1] /\ hist.hc[2]
  /\ ~hist.again
  /\ hist.drained # "many"
  /\ (C16_Drained /\ pc = "play") =>
       hist.drained = "one" /\ img.path = GetCurrentPath(nav)
  /\ (C16_Drained /\ pc = "exit1") =>
       hist.drained = "pending" /\ NumPaths(nav) = 0

\* after events: a run of the drain loop that dropped a path and then loaded
\* the next has been left
C16_Witness ==
  /\ C16_Drained
  /\ pc = "play"
  /\ hist.input
  /\ Cardinality(hist.tries) = 2
  /\ hist.drained = "one"


(* C17 as stated: every dt handed to play covers the time that has passed  *)
(* since the play step before it or, if playback was switched on after     *)
(* that step, since it was switched on, and no more than the time that     *)
(* passed with playback on since that step: time spent with playback off   *)
(* is never handed to the animation.                                       *)
C17_PlayingTimeOnly ==
  hist.last = "play" =>
    /\ hist.arg >= clock.now - hist.was[1]
    /\ hist.arg <= hist.was[2]


(* C18 as stated: a turn of the drain loop whose load failed leaves the    *)
(* viewport as it was, redraw request included, whether the actual-size    *)
(* option is on or off.                                                    *)
C18_FailedLoadKeepsView ==
  hist.last = "drop" => view = hist.was[1]


(* C19: whenever main paints, the image it holds and the texture it draws  *)
(* were decoded from the current path of the navigator, a path of the      *)
(* list; the navigator's changed flag is clear and the list is not empty.  *)
(* So nothing is painted before the first load has succeeded, and no path  *)
(* that was removed is painted.                                            *)
C19_PaintShowsCurrent ==
  hist.paint = "yes" =>
    /\ NumPaths(nav) > 0
    /\ ~nav.changed
    /\ img.path # None
    /\ img.path = GetCurrentPath(nav)
    /\ tex = img.path
    /\ HasPath(nav, tex)

\* B is painted, after an event, with A and C undecodable and gone
C19_Witness ==
  /\ hist.paint = "yes"
  /\ hist.input
  /\ bad = {"A", "C"}
  /\ nav.paths = <<"B">>
  /\ tex = "B"


(* C20: once quit is set, main stands at the event loop or is done; the    *)
(* only step it takes is the one that leaves the loop for the teardown,    *)
(* and that step handles no event, runs no turn of the drain loop, loads   *)
(* nothing, plays nothing and paints nothing: navigator, image, viewport,  *)
(* texture and clock stay as the quit event found them.                    *)
C20_QuitStopsEverything ==
  /\ [](quit => pc \in {"poll", "done"})
  /\ [][quit => /\ pc' = "done"
                /\ quit'
                /\ hist'.last = "none" /\ hist'.tried = "" /\ hist'.paint = ""
                /\ UNCHANGED <<nav, img, view, tex, clock>>]_vars

\* main has ended by quit with a navigation and a redraw left undone
C20_Witness ==
  /\ pc = "done"
  /\ quit
  /\ nav.changed
  /\ view.redraw
  /\ img.path # GetCurrentPath(nav)


=============================================================================
